---- MODULE Spec2Model ----
(***************************************************************************)
(* A model of the mini shell (src/shell.c): the command loop of main, the  *)
(* built-ins, run_process and run_pipe, together with the part of the      *)
(* kernel they rely on (process table, per-process descriptor tables,      *)
(* pipes, wait).  Every process carries its own program counter and its    *)
(* own copy of the C locals, because fork() duplicates the shell: what a   *)
(* child does before execvp() is shell code running in another process.    *)
(*                                                                         *)
(* What the model leaves to its environment:                               *)
(*  - the user types whole lines shorter than the buffers (MAX_LINE for a  *)
(*    command, 8 for the answer to the exit question), so fgets never      *)
(*    splits a line; end-of-input on stdin is sticky;                      *)
(*  - the programs on the PATH are yes (writes without end), head (reads   *)
(*    HeadLimit chunks, then exits) and sleep (exits after a while); any   *)
(*    other name makes execvp fail;                                        *)
(*  - what perror and printf write is not part of the state;               *)
(*  - signal() gives restarting handlers (glibc), so a caught signal does  *)
(*    not end the shell's fgets or waitpid.                                *)
(*                                                                         *)
(* The telemetry side of the shell (the listener thread, the cache and its *)
(* mutex, mq_start_if_available, mq_stop_and_close) and the daemon         *)
(* (src/cpuloadd.c) have their own variables and their own specifications: *)
(* the jobs the shell runs do not touch the telemetry globals, and the     *)
(* listener touches nothing else.  Spec, LiveSpec and SigSpec are the      *)
(* process side, MqSpec and MqLiveSpec the telemetry side, in which main   *)
(* is reduced to its start-up, the prompt's snapshot, the read of a        *)
(* command and the clean-up; DaemonSpec is the daemon.  Each leaves the    *)
(* variables of the others as they are initially.                          *)
(***************************************************************************)
EXTENDS Integers, Sequences, FiniteSets, TLC

(* ------------------------------ bounds --------------------------------- *)
\* children the kernel can ever create (fork fails with EAGAIN beyond it)
MaxChildren == 2
\* pipes the kernel can ever create (pipe fails with ENFILE beyond it)
MaxPipes == 1
\* highest descriptor number of a process (pipe fails with EMFILE beyond it)
MaxFd == 4
\* capacity of a pipe's kernel buffer, in chunks
PipeCap == 1
\* chunks the bounded consumer ("head") reads before it exits
HeadLimit == 1
\* messages the queue "/cpuload" holds at most (mq_send blocks beyond it)
QueueCap == 1

(* -------------------------- program constants -------------------------- *)
MAX_ARGS == 32
STDIN_FILENO == 0
STDOUT_FILENO == 1
\* exit(1) after a failed execvp
ExecFailStatus == 1
\* exit(0) of the confirmed exit built-in, and main's return 0
ExitOk == 0
\* number of the signal that kills a writer on a pipe without readers
SIGPIPE == 13
\* numbers of the signals main installs a handler for (lines 265-268), and of
\* the other signals a terminal sends to a job-control shell
SIGINT == 2
SIGQUIT == 3
SIGTERM == 15
SIGCONT == 18
SIGTSTP == 20
SIGTTIN == 21
SIGTTOU == 22

ShellPid == 1
Pids == 1..(MaxChildren + 1)
Fds == 0..MaxFd
PipeIds == 1..MaxPipes

(* ------------------------------ the input ------------------------------ *)
\* Command lines are sequences of characters, as fgets delivers them
\* (without the newline, which trim_newline removes).
SP == <<" ">>
W_yes == <<"y", "e", "s">>
W_head == <<"h", "e", "a", "d">>
W_sleep == <<"s", "l", "e", "e", "p">>
W_nosuch == <<"z", "z">>
W_exit == <<"e", "x", "i", "t">>
W_pwd == <<"p", "w", "d">>
W_cd == <<"c", "d">>
W_amp == <<"&">>
W_bar == <<"|">>

\* the command lines a user types in this model
Lines ==
  { <<>>,
    SP,
    W_pwd,
    W_cd \o SP \o W_nosuch,
    W_exit,
    W_yes,
    W_yes \o SP \o W_amp,
    W_sleep,
    W_sleep \o SP \o W_amp,
    W_nosuch,
    W_nosuch \o SP \o W_amp,
    W_head,
    W_yes \o SP \o W_bar \o SP \o W_head,
    W_yes \o W_bar \o W_head,
    W_nosuch \o SP \o W_bar \o SP \o W_head,
    W_yes \o SP \o W_bar \o SP \o W_nosuch,
    W_sleep \o SP \o W_bar \o SP \o W_yes,
    W_yes \o SP \o W_bar \o SP \o W_head \o SP \o W_amp,
    W_bar \o SP \o W_head }

\* the lines a user answers to the exit question with
Answers == { <<"y">>, <<"n">>, <<"y", "n">>, <<"n", "y">>, <<>> }

\* what execvp finds on the PATH: the image a command name starts, or "none"
ImageOf(name) ==
  IF name = W_yes THEN "yes"
  ELSE IF name = W_head THEN "head"
  ELSE IF name = W_sleep THEN "sleep"
  ELSE "none"

(* --------------------------- pure functions ---------------------------- *)
\* fgets: a line of input as the buffer holds it, newline included
fgets(l) == l \o <<"\n">>

\* trim_newline: drop one trailing newline
trim_newline(s) ==
  IF Len(s) > 0 /\ s[Len(s)] = "\n" THEN SubSeq(s, 1, Len(s) - 1) ELSE s

\* the delimiters of strtok(line, " \t")
Delims == {" ", "\t"}

\* strtok run to the end of the string: the non-empty runs between delimiters
RECURSIVE strtok(_, _, _)
strtok(s, cur, acc) ==
  IF s = <<>>
    THEN (IF cur = <<>> THEN acc ELSE Append(acc, cur))
    ELSE IF Head(s) \in Delims
      THEN strtok(Tail(s), <<>>, IF cur = <<>> THEN acc ELSE Append(acc, cur))
      ELSE strtok(Tail(s), Append(cur, Head(s)), acc)

\* parse_line: the tokens of a line, at most MAX_ARGS - 1 of them
parse_line(line) ==
  LET t == strtok(line, <<>>, <<>>)
  IN  IF Len(t) > MAX_ARGS - 1 THEN SubSeq(t, 1, MAX_ARGS - 1) ELSE t

\* strchr(line, '|'): the position of the first '|', 0 when there is none
strchr_bar(line) ==
  IF \E i \in 1..Len(line) : line[i] = "|"
    THEN CHOOSE i \in 1..Len(line) :
           /\ line[i] = "|"
           /\ \A j \in 1..(i - 1) : line[j] # "|"
    ELSE 0

\* line 308: while (*right_cmd == ' ') right_cmd++
RECURSIVE skip_spaces(_)
skip_spaces(s) ==
  IF s # <<>> /\ Head(s) = " " THEN skip_spaces(Tail(s)) ELSE s

\* is_background without the test for "&"
is_background_never(args) == FALSE

\* is_background: 1 when the last token is "&"
is_background(args) ==
  Len(args) > 0 /\ args[Len(args)] = W_amp

\* the argument vector is_background leaves behind (the "&" overwritten by NULL)
strip_background(args) ==
  IF is_background(args) THEN SubSeq(args, 1, Len(args) - 1) ELSE args

\* run_builtin: which built-in args[0] names, "none" for an external command
run_builtin(args) ==
  IF args[1] = W_pwd THEN "pwd"
  ELSE IF args[1] = W_cd THEN "cd"
  ELSE IF args[1] = W_exit THEN "exit"
  ELSE "none"

\* the test on the answer, taking everything but a leading 'n' for a yes
affirmative_unless_n(ans) == ans[1] # "n"

\* the test on the answer to the exit question: ans[0] == 'y'
affirmative(ans) == ans[1] = "y"

(* ------------------------- numbers and their text ---------------------- *)
\* the byte that ends a C string
NUL == "NUL"

DigitChars == <<"0", "1", "2", "3", "4", "5", "6", "7", "8", "9">>
isdigit(c) == \E i \in 1..10 : DigitChars[i] = c
DigitVal(c) == (CHOOSE i \in 1..10 : DigitChars[i] = c) - 1
isspace(c) == c \in {" ", "\t", "\n"}

\* atoi: white space, an optional sign, then digits up to the first byte
\* that is no digit (the numbers of this model are far from INT_MAX)
RECURSIVE atoi_digits(_, _)
atoi_digits(s, acc) ==
  IF s # <<>> /\ isdigit(Head(s))
    THEN atoi_digits(Tail(s), acc * 10 + DigitVal(Head(s)))
    ELSE acc

RECURSIVE atoi_spaces(_)
atoi_spaces(s) == IF s # <<>> /\ isspace(Head(s)) THEN atoi_spaces(Tail(s)) ELSE s

atoi(s) ==
  LET t == atoi_spaces(s)
  IN  IF t # <<>> /\ Head(t) = "-" THEN 0 - atoi_digits(Tail(t), 0)
      ELSE IF t # <<>> /\ Head(t) = "+" THEN atoi_digits(Tail(t), 0)
      ELSE atoi_digits(t, 0)

\* lines 75-76 without the upper limit
clamp_low_only(v) == IF v < 0 THEN 0 ELSE v

\* lines 75-76: if (val < 0) val = 0; if (val > 100) val = 100;
clamp(v) == IF v < 0 THEN 0 ELSE IF v > 100 THEN 100 ELSE v

\* the decimal digits of a natural number
RECURSIVE Digits(_)
Digits(k) ==
  IF k < 10 THEN <<DigitChars[k + 1]>>
  ELSE Append(Digits(k \div 10), DigitChars[(k % 10) + 1])

\* snprintf(buf, sizeof(buf), "%.1f", val) for a value given in tenths
\* (cpuloadd.c, line 154)
format_1f(t) ==
  IF t < 0 THEN <<"-">> \o Digits((0 - t) \div 10) \o <<".">> \o Digits((0 - t) % 10)
  ELSE Digits(t \div 10) \o <<".">> \o Digits(t % 10)

\* the numbers (in tenths) whose text somebody sends
SentTenths == {573, 1000, 2505, -32}

\* The messages somebody sends to the queue.  cpuloadd sends the text and
\* its terminating NUL (line 157: n + 1 bytes); the queue is open to other
\* senders (mode 0666), which may send other text, or text without the NUL.
Messages ==
  {format_1f(t) \o <<NUL>> : t \in SentTenths}
    \cup { <<"a", "b", "c", NUL>>, <<"5">> }

\* what the listener's buffer can hold behind a message of fewer than 64
\* bytes: buf is a local without initialiser (line 69), so these bytes are
\* whatever the stack held, up to the NUL that line 73 stores at buf[63]
StaleBytes == { <<NUL>>, <<"7", NUL>> }

\* the C string a buffer starts with: its bytes before the first NUL
RECURSIVE cstring(_)
cstring(b) ==
  IF b = <<>> \/ Head(b) = NUL THEN <<>> ELSE <<Head(b)>> \o cstring(Tail(b))

(* ------------------------------ the state ------------------------------ *)
VARIABLES
  pstate,     \* pid -> "unused" | "running" | "stopped" | "zombie" | "reaped"
  ppc,        \* pid -> the place in the code the process is at
  image,      \* pid -> the program the process runs ("shell" until execvp)
  argv,       \* pid -> the argument vector its image was started with
  parent,     \* pid -> the pid that forked it (0 for the shell)
  fdt,        \* pid -> descriptor number -> what the descriptor refers to
  loc,        \* pid -> the C locals of the shell code in that process
  status,     \* pid -> wait status of a terminated process, -1 before
  execFailed, \* pid -> TRUE once execvp has failed in that process
  nread,      \* pid -> chunks the bounded consumer has read
  pipebuf,    \* pipe -> chunks in its kernel buffer
  npipes,     \* pipes created so far
  stdinEof    \* TRUE once the shell's stdin stream has hit end-of-input

vars == <<pstate, ppc, image, argv, parent, fdt, loc, status, execFailed,
          nread, pipebuf, npipes, stdinEof>>

\* The telemetry side of the shell (src/shell.c, lines 19-126 and 280-293):
\* the globals, the listener thread, and main seen as the thread that starts
\* the listener, takes the prompt's snapshot and stops the listener.
VARIABLES
  g_mq,                 \* the queue handle, -1 when no queue is open
  current_cpu_load,     \* the cache: -1 until a sample has been stored
  g_cpu_mtx,            \* who holds the mutex: "free" | "main" | "listener"
  g_mq_thread_running,  \* 1 while the listener's loop shall go on
  g_mq_thread_started,  \* 1 once pthread_create has succeeded
  mpc,                  \* the place main is at
  load_snapshot,        \* main's local: the value the prompt shows
  lpc,                  \* the place the listener thread is at
  nrecv,                \* the listener's local n: bytes mq_receive returned
  buf,                  \* the listener's local: the buffer after mq_receive
  val,                  \* the listener's local: the value parsed from buf
  cancelReq             \* TRUE once pthread_cancel has been called

mqvars == <<g_mq, current_cpu_load, g_cpu_mtx, g_mq_thread_running,
            g_mq_thread_started, mpc, load_snapshot, lpc, nrecv, buf, val,
            cancelReq>>

\* The daemon (src/cpuloadd.c) and the message queue "/cpuload" between the
\* two programs.
VARIABLES
  mqueue,           \* the messages in the queue, oldest first
  dpc,              \* the place the daemon's main is at
  using_sim,        \* 1 once the daemon samples by simulation
  fail_budget,      \* failed measurements left before the switch
  sample_from_sim,  \* 1 when the last sample was simulated
  simv,             \* simulated_cpu_load's static v, in tenths of a percent
  dval,             \* the last sample, in tenths of a percent
  dbuf,             \* the text of the last sample
  streak            \* failed real measurements in a row, up to now

dvars == <<dpc, using_sim, fail_budget, sample_from_sim, simv, dval, dbuf, streak>>

\* a step of the process side: the telemetry side and the daemon do nothing
NoTelemetry == UNCHANGED <<mqvars, mqueue, dvars>>

\* a step of the telemetry side: processes and daemon do nothing
NoProcesses == UNCHANGED <<vars, dvars>>

\* descriptor targets
Closed == [kind |-> "closed", pipe |-> 0, end |-> "-"]
Tty == [kind |-> "tty", pipe |-> 0, end |-> "-"]
PipeEnd(k, e) == [kind |-> "pipe", pipe |-> k, end |-> e]

\* the locals of main, run_builtin, run_process and run_pipe; dead values are
\* kept at these defaults
NoLocals ==
  [ line |-> <<>>, args |-> <<>>, background |-> FALSE, ans |-> <<>>,
    left |-> <<>>, right |-> <<>>, fd0 |-> -1, fd1 |-> -1,
    pid |-> 0, pid1 |-> 0, pid2 |-> 0, pipe |-> 0 ]

\* wait status words, as waitpid stores them
ExitedWith(code) == code * 256
KilledBy(sig) == sig
WIFEXITED(st) == st >= 0 /\ st % 128 = 0
WEXITSTATUS(st) == (st \div 256) % 256
WIFSIGNALED(st) == st > 0 /\ st % 128 # 0

\* the telemetry side when main is entered: the initial values of the globals
\* (lines 21-32), no listener thread
MqInit ==
  /\ g_mq = -1
  /\ current_cpu_load = -1
  /\ g_cpu_mtx = "free"
  /\ g_mq_thread_running = 0
  /\ g_mq_thread_started = 0
  /\ mpc = "mq_open"
  /\ load_snapshot = -1
  /\ lpc = "none"
  /\ nrecv = -1
  /\ buf = <<>>
  /\ val = 0
  /\ cancelReq = FALSE

\* the daemon when its main is entered, and the queue before anybody sends
DaemonInit ==
  /\ mqueue = <<>>
  /\ dpc = "mq_open"
  /\ using_sim = 0
  /\ fail_budget = 3
  /\ sample_from_sim = 0
  /\ simv = 350
  /\ dval = 0
  /\ dbuf = <<>>
  /\ streak = 0

Init ==
  /\ MqInit
  /\ DaemonInit
  /\ pstate = [p \in Pids |-> IF p = ShellPid THEN "running" ELSE "unused"]
  /\ ppc = [p \in Pids |-> IF p = ShellPid THEN "prompt" ELSE "none"]
  /\ image = [p \in Pids |-> IF p = ShellPid THEN "shell" ELSE "none"]
  /\ argv = [p \in Pids |-> <<>>]
  /\ parent = [p \in Pids |-> 0]
  /\ fdt = [p \in Pids |->
             [n \in Fds |-> IF p = ShellPid /\ n <= 2 THEN Tty ELSE Closed]]
  /\ loc = [p \in Pids |-> NoLocals]
  /\ status = [p \in Pids |-> -1]
  /\ execFailed = [p \in Pids |-> FALSE]
  /\ nread = [p \in Pids |-> 0]
  /\ pipebuf = [k \in PipeIds |-> 0]
  /\ npipes = 0
  /\ stdinEof = FALSE

(* ------------------------------ the kernel ----------------------------- *)
At(p, l) == pstate[p] = "running" /\ ppc[p] = l

\* the pid fork() hands out next: the lowest one never used
HavePid == \E c \in Pids : pstate[c] = "unused"
NextPid == CHOOSE c \in Pids :
             /\ pstate[c] = "unused"
             /\ \A d \in Pids : pstate[d] = "unused" => c <= d

\* the free descriptor numbers of a process, and the lowest of a set
FreeFds(p) == {n \in Fds : fdt[p][n] = Closed}
Lowest(S) == CHOOSE n \in S : \A m \in S : n <= m

\* some process holds an open descriptor for that end of pipe k
EndOpen(k, e) == \E q \in Pids : \E n \in Fds : fdt[q][n] = PipeEnd(k, e)

\* process p goes to pc l
Goto(p, l) == ppc' = [ppc EXCEPT ![p] = l]

\* process p is back at the top of main's loop; the locals of the iteration
\* that ends are dead
Continue(p) ==
  /\ Goto(p, "prompt")
  /\ loc' = [loc EXCEPT ![p] = NoLocals]

\* process p terminates with wait status st: it becomes a zombie and the
\* kernel closes all its descriptors
Exit(p, st) ==
  /\ pstate' = [pstate EXCEPT ![p] = "zombie"]
  /\ ppc' = [ppc EXCEPT ![p] = "exited"]
  /\ fdt' = [fdt EXCEPT ![p] = [n \in Fds |-> Closed]]
  /\ status' = [status EXCEPT ![p] = st]
  /\ image' = [image EXCEPT ![p] = "none"]
  /\ argv' = [argv EXCEPT ![p] = <<>>]
  /\ nread' = [nread EXCEPT ![p] = 0]

\* waitpid collects the terminated child c: the kernel forgets it
Reap(c) ==
  /\ pstate' = [pstate EXCEPT ![c] = "reaped"]
  /\ status' = [status EXCEPT ![c] = -1]
  /\ execFailed' = [execFailed EXCEPT ![c] = FALSE]

\* fork() succeeded in p: child c is a copy of p that continues at childpc
\* with fork's result 0 and the locals childloc (those of p's locals that
\* the child's code still reads), p continues at parentpc with newloc
Fork(p, c, childpc, childloc, parentpc, newloc) ==
  /\ pstate' = [pstate EXCEPT ![c] = "running"]
  /\ ppc' = [ppc EXCEPT ![c] = childpc, ![p] = parentpc]
  /\ image' = [image EXCEPT ![c] = image[p]]
  /\ argv' = [argv EXCEPT ![c] = argv[p]]
  /\ parent' = [parent EXCEPT ![c] = p]
  /\ fdt' = [fdt EXCEPT ![c] = fdt[p]]
  /\ loc' = [loc EXCEPT ![c] = childloc, ![p] = newloc]
  /\ UNCHANGED <<status, execFailed, nread, pipebuf, npipes, stdinEof>>

\* waitpid(c, &status, 0) in p can return: c is a terminated child of p
\* (options 0: a stopped child does not end the wait)
waitpid_ready(p, c) == c \in Pids /\ parent[c] = p /\ pstate[c] = "zombie"

\* getpgid(p): fork puts the child into its parent's process group, and the
\* code has no setpgid call that would move it (lines 190-260), so the group
\* of a process is the group of the process it descends from
RECURSIVE getpgid(_)
getpgid(p) == IF parent[p] = 0 THEN p ELSE getpgid(parent[p])

(* --------------------------- main: the loop ---------------------------- *)
\* lines 280-293: draw the prompt
Prompt(p) ==
  /\ At(p, "prompt")
  /\ Goto(p, "read")
  /\ loc' = [loc EXCEPT ![p] = NoLocals]
  /\ UNCHANGED <<pstate, image, argv, parent, fdt, status, execFailed,
                 nread, pipebuf, npipes, stdinEof>>
  /\ NoTelemetry

\* end-of-input handed to the exit question instead of leaving the loop
on_eof_asks == "confirm"

\* where main goes when fgets finds end-of-input (line 296: break)
on_eof == "cleanup"

\* lines 297-335: what main does with a line it has read
Dispatch(p, got) ==
  LET line == trim_newline(got)
      pos == strchr_bar(line)
      left == parse_line(SubSeq(line, 1, pos - 1))
      right == parse_line(skip_spaces(SubSeq(line, pos + 1, Len(line))))
      args == parse_line(line)
  IN  IF Len(line) = 0
        THEN Continue(p)
      ELSE IF pos # 0
        THEN IF Len(left) > 0 /\ Len(right) > 0
               THEN /\ Goto(p, "rpipe_pipe")
                    /\ loc' = [loc EXCEPT ![p].line = line,
                                          ![p].left = left, ![p].right = right]
               ELSE Continue(p)
      ELSE IF Len(args) = 0
        THEN Continue(p)
      ELSE IF run_builtin(args) \in {"pwd", "cd"}
        THEN Continue(p)
      ELSE IF run_builtin(args) = "exit"
        THEN Goto(p, "confirm")
             /\ loc' = [loc EXCEPT ![p].line = line, ![p].args = args]
      ELSE /\ Goto(p, "rp_fork")
           /\ loc' = [loc EXCEPT ![p].line = line,
                                 ![p].args = strip_background(args),
                                 ![p].background = is_background(args)]

\* line 295: fgets on the command line, then the dispatch
ReadLine(p) ==
  /\ At(p, "read")
  /\ \/ /\ stdinEof' = TRUE
        /\ Goto(p, on_eof)
        /\ UNCHANGED loc
     \/ /\ ~stdinEof
        /\ UNCHANGED stdinEof
        /\ \E l \in Lines : Dispatch(p, fgets(l))
  /\ UNCHANGED <<pstate, image, argv, parent, fdt, status, execFailed,
                 nread, pipebuf, npipes>>
  /\ NoTelemetry

\* lines 176-184: the exit built-in reads the answer
Confirm(p) ==
  /\ At(p, "confirm")
  /\ \/ /\ stdinEof' = TRUE
        /\ Continue(p)
        /\ UNCHANGED <<pstate, fdt, status, image, argv, nread>>
     \/ /\ ~stdinEof
        /\ UNCHANGED stdinEof
        /\ \E a \in Answers :
             /\ loc' = [loc EXCEPT ![p] = [NoLocals EXCEPT !.ans = fgets(a)]]
             /\ IF affirmative(fgets(a))
                  THEN Exit(p, ExitedWith(ExitOk))
                  ELSE /\ Goto(p, "prompt")
                       /\ UNCHANGED <<pstate, fdt, status, image, argv, nread>>
  /\ UNCHANGED <<parent, execFailed, pipebuf, npipes>>
  /\ NoTelemetry

\* lines 338-342: leaving the loop
Cleanup(p) ==
  /\ At(p, "cleanup")
  /\ Exit(p, ExitedWith(ExitOk))
  /\ UNCHANGED <<parent, loc, execFailed, pipebuf, npipes, stdinEof>>
  /\ NoTelemetry

(* ------------------------ fork and exec failures ----------------------- *)
\* a failed fork that ends the shell: perror("fork"); exit(1)
fork_failed_exits(p) ==
  /\ Exit(p, ExitedWith(1))
  /\ UNCHANGED <<parent, loc, execFailed, pipebuf, npipes, stdinEof>>

\* lines 192-195, 221-224, 237-240: perror("fork"); return
fork_failed(p) ==
  /\ Continue(p)
  /\ UNCHANGED <<pstate, image, argv, parent, fdt, status, execFailed,
                 nread, pipebuf, npipes, stdinEof>>

\* a failed execvp without the exit: the child returns into main's loop
execvp_failed_returns(p) ==
  /\ execFailed' = [execFailed EXCEPT ![p] = TRUE]
  /\ Continue(p)
  /\ UNCHANGED <<pstate, image, argv, parent, fdt, status, nread,
                 pipebuf, npipes, stdinEof>>

\* lines 200-201, 232-233, 248-249: perror("execvp"); exit(1)
execvp_failed(p) ==
  /\ execFailed' = [execFailed EXCEPT ![p] = TRUE]
  /\ Exit(p, ExitedWith(ExecFailStatus))
  /\ loc' = [loc EXCEPT ![p] = NoLocals]
  /\ UNCHANGED <<parent, pipebuf, npipes, stdinEof>>

\* execvp(a[0], a) in p
execvp(p, a) ==
  IF ImageOf(a[1]) # "none"
    THEN /\ image' = [image EXCEPT ![p] = ImageOf(a[1])]
         /\ argv' = [argv EXCEPT ![p] = a]
         /\ Goto(p, "prog")
         /\ loc' = [loc EXCEPT ![p] = NoLocals]
         /\ UNCHANGED <<pstate, parent, fdt, status, execFailed, nread,
                        pipebuf, npipes, stdinEof>>
    ELSE execvp_failed(p)

(* ----------------------------- run_process ----------------------------- *)
\* line 191: fork
RunProcessFork(p) ==
  /\ At(p, "rp_fork")
  /\ \/ fork_failed(p)
     \/ /\ HavePid
        /\ Fork(p, NextPid, "rp_exec",
                [NoLocals EXCEPT !.args = loc[p].args],
                IF loc[p].background THEN "prompt" ELSE "rp_wait",
                IF loc[p].background THEN NoLocals
                                     ELSE [loc[p] EXCEPT !.pid = NextPid])
  /\ NoTelemetry

\* line 199: the child replaces its image
RunProcessExec(p) ==
  /\ At(p, "rp_exec")
  /\ execvp(p, loc[p].args)
  /\ NoTelemetry

\* lines 205-208: the foreground wait
RunProcessWait(p) ==
  /\ At(p, "rp_wait")
  /\ waitpid_ready(p, loc[p].pid)
  /\ Reap(loc[p].pid)
  /\ Continue(p)
  /\ UNCHANGED <<image, argv, parent, fdt, nread, pipebuf, npipes, stdinEof>>
  /\ NoTelemetry

(* ------------------------------- run_pipe ------------------------------ *)
\* lines 215-218: pipe(fd); it takes the two lowest free descriptor numbers
RunPipePipe(p) ==
  /\ At(p, "rpipe_pipe")
  /\ \/ \* pipe() == -1: perror("pipe"); return
        /\ Continue(p)
        /\ UNCHANGED <<fdt, npipes>>
     \/ /\ npipes < MaxPipes
        /\ Cardinality(FreeFds(p)) >= 2
        /\ LET r == Lowest(FreeFds(p))
               w == Lowest(FreeFds(p) \ {r})
               k == npipes + 1
           IN  /\ npipes' = k
               /\ fdt' = [fdt EXCEPT ![p][r] = PipeEnd(k, "r"),
                                     ![p][w] = PipeEnd(k, "w")]
               /\ loc' = [loc EXCEPT ![p].fd0 = r, ![p].fd1 = w, ![p].pipe = k]
               /\ Goto(p, "rpipe_fork1")
  /\ UNCHANGED <<pstate, image, argv, parent, status, execFailed, nread,
                 pipebuf, stdinEof>>
  /\ NoTelemetry

\* line 220: the first fork
RunPipeFork1(p) ==
  /\ At(p, "rpipe_fork1")
  /\ \/ fork_failed(p)
     \/ /\ HavePid
        /\ Fork(p, NextPid, "c1_dup",
                [NoLocals EXCEPT !.left = loc[p].left, !.pipe = loc[p].pipe,
                                 !.fd0 = loc[p].fd0, !.fd1 = loc[p].fd1],
                "rpipe_fork2",
                [loc[p] EXCEPT !.pid1 = NextPid])
  /\ NoTelemetry

\* line 236: the second fork
RunPipeFork2(p) ==
  /\ At(p, "rpipe_fork2")
  /\ \/ fork_failed(p)
     \/ /\ HavePid
        /\ Fork(p, NextPid, "c2_dup",
                [NoLocals EXCEPT !.right = loc[p].right, !.pipe = loc[p].pipe,
                                 !.fd0 = loc[p].fd0, !.fd1 = loc[p].fd1],
                "rpipe_close",
                [loc[p] EXCEPT !.pid2 = NextPid])
  /\ NoTelemetry

\* dup2(old, new) on a descriptor table
dup2(t, old, new) == [t EXCEPT ![new] = t[old]]

\* close(fd[0]); close(fd[1]) on a descriptor table, in a child
child_close(t, r, w) == [t EXCEPT ![r] = Closed, ![w] = Closed]

\* a parent that forgets close(fd[0])
parent_close_keeps_read(t, r, w) == [t EXCEPT ![w] = Closed]

\* a parent that forgets close(fd[1])
parent_close_keeps_write(t, r, w) == [t EXCEPT ![r] = Closed]

\* close(fd[0]); close(fd[1]) on a descriptor table, in the parent
parent_close(t, r, w) == [t EXCEPT ![r] = Closed, ![w] = Closed]

\* line 228 (left child) and line 244 (right child): the redirect
ChildDup(p) ==
  /\ \/ /\ At(p, "c1_dup")
        /\ fdt' = [fdt EXCEPT ![p] = dup2(fdt[p], loc[p].fd1, STDOUT_FILENO)]
        /\ Goto(p, "c1_close")
     \/ /\ At(p, "c2_dup")
        /\ fdt' = [fdt EXCEPT ![p] = dup2(fdt[p], loc[p].fd0, STDIN_FILENO)]
        /\ Goto(p, "c2_close")
  /\ UNCHANGED <<pstate, image, argv, parent, loc, status, execFailed, nread,
                 pipebuf, npipes, stdinEof>>
  /\ NoTelemetry

\* lines 229-230 and 245-246: the child closes both pipe descriptors
ChildClose(p) ==
  /\ \/ At(p, "c1_close") /\ Goto(p, "c1_exec")
     \/ At(p, "c2_close") /\ Goto(p, "c2_exec")
  /\ fdt' = [fdt EXCEPT ![p] = child_close(fdt[p], loc[p].fd0, loc[p].fd1)]
  /\ UNCHANGED <<pstate, image, argv, parent, loc, status, execFailed, nread,
                 pipebuf, npipes, stdinEof>>
  /\ NoTelemetry

\* lines 231 and 247: the child replaces its image
ChildExec(p) ==
  /\ \/ At(p, "c1_exec") /\ execvp(p, loc[p].left)
     \/ At(p, "c2_exec") /\ execvp(p, loc[p].right)
  /\ NoTelemetry

\* lines 253-255: the parent closes both pipe descriptors
RunPipeClose(p) ==
  /\ At(p, "rpipe_close")
  /\ fdt' = [fdt EXCEPT ![p] = parent_close(fdt[p], loc[p].fd0, loc[p].fd1)]
  /\ Goto(p, "rpipe_wait1")
  /\ UNCHANGED <<pstate, image, argv, parent, loc, status, execFailed, nread,
                 pipebuf, npipes, stdinEof>>
  /\ NoTelemetry

\* line 258: waitpid(pid1, &status, 0)
RunPipeWait1(p) ==
  /\ At(p, "rpipe_wait1")
  /\ waitpid_ready(p, loc[p].pid1)
  /\ Reap(loc[p].pid1)
  /\ Goto(p, "rpipe_wait2")
  /\ UNCHANGED <<image, argv, parent, fdt, loc, nread, pipebuf, npipes,
                 stdinEof>>
  /\ NoTelemetry

\* line 259: waitpid(pid2, &status, 0)
RunPipeWait2(p) ==
  /\ At(p, "rpipe_wait2")
  /\ waitpid_ready(p, loc[p].pid2)
  /\ Reap(loc[p].pid2)
  /\ Continue(p)
  /\ UNCHANGED <<image, argv, parent, fdt, nread, pipebuf, npipes, stdinEof>>
  /\ NoTelemetry

(* ----------------------- the programs that are run --------------------- *)
\* "yes" writes a chunk to a pipe on its standard output: it is killed by
\* SIGPIPE when no read end is open, and blocks while the buffer is full.
\* (Writing to the terminal changes nothing in this model.)
YesWrite(p) ==
  /\ At(p, "prog") /\ image[p] = "yes"
  /\ fdt[p][STDOUT_FILENO].kind = "pipe"
  /\ fdt[p][STDOUT_FILENO].end = "w"
  /\ LET k == fdt[p][STDOUT_FILENO].pipe
     IN  IF ~EndOpen(k, "r")
           THEN Exit(p, KilledBy(SIGPIPE)) /\ UNCHANGED pipebuf
           ELSE /\ pipebuf[k] < PipeCap
                /\ pipebuf' = [pipebuf EXCEPT ![k] = @ + 1]
                /\ UNCHANGED <<pstate, ppc, fdt, status, image, argv, nread>>
  /\ UNCHANGED <<parent, loc, execFailed, npipes, stdinEof>>
  /\ NoTelemetry

\* "head" reads a chunk from a pipe on its standard input: it blocks while
\* the pipe is empty and a write end is open, and exits at end-of-input
HeadReadPipe(p) ==
  /\ At(p, "prog") /\ image[p] = "head"
  /\ nread[p] < HeadLimit
  /\ fdt[p][STDIN_FILENO].kind = "pipe"
  /\ fdt[p][STDIN_FILENO].end = "r"
  /\ LET k == fdt[p][STDIN_FILENO].pipe
     IN  IF pipebuf[k] > 0
           THEN /\ pipebuf' = [pipebuf EXCEPT ![k] = @ - 1]
                /\ nread' = [nread EXCEPT ![p] = @ + 1]
                /\ UNCHANGED <<pstate, ppc, fdt, status, image, argv>>
           ELSE /\ ~EndOpen(k, "w")
                /\ Exit(p, ExitedWith(ExitOk))
                /\ UNCHANGED pipebuf
  /\ UNCHANGED <<parent, loc, execFailed, npipes, stdinEof>>
  /\ NoTelemetry

\* "head" reads a line the user types at the terminal
HeadReadTty(p) ==
  /\ At(p, "prog") /\ image[p] = "head"
  /\ nread[p] < HeadLimit
  /\ fdt[p][STDIN_FILENO].kind = "tty"
  /\ nread' = [nread EXCEPT ![p] = @ + 1]
  /\ UNCHANGED <<pstate, ppc, image, argv, parent, fdt, loc, status,
                 execFailed, pipebuf, npipes, stdinEof>>
  /\ NoTelemetry

\* "head" has read its limit and exits
HeadExit(p) ==
  /\ At(p, "prog") /\ image[p] = "head"
  /\ nread[p] = HeadLimit
  /\ Exit(p, ExitedWith(ExitOk))
  /\ UNCHANGED <<parent, loc, execFailed, pipebuf, npipes, stdinEof>>
  /\ NoTelemetry

\* "sleep" is over and exits
SleepExit(p) ==
  /\ At(p, "prog") /\ image[p] = "sleep"
  /\ Exit(p, ExitedWith(ExitOk))
  /\ UNCHANGED <<parent, loc, execFailed, pipebuf, npipes, stdinEof>>
  /\ NoTelemetry

(* ------------------------- signals from outside ----------------------- *)
\* The shell never calls setpgid, so the shell and all its children are one
\* process group, and a signal from the terminal goes to all of them.  The
\* shell catches SIGTSTP and SIGCONT (lines 266 and 268: the handler prints
\* a message, and the interrupted call is restarted), and so does a child
\* until execvp puts the signals back to their default action.
Suspendable(q) == q # ShellPid /\ At(q, "prog")

\* SIGTSTP from the terminal: every child that runs its own image stops
TtySuspend ==
  /\ \E q \in Pids : Suspendable(q)
  /\ pstate' = [q \in Pids |-> IF Suspendable(q) THEN "stopped" ELSE pstate[q]]
  /\ UNCHANGED <<ppc, image, argv, parent, fdt, loc, status, execFailed,
                 nread, pipebuf, npipes, stdinEof>>
  /\ NoTelemetry

\* SIGCONT to the process group: every stopped child goes on
GroupContinue ==
  /\ \E q \in Pids : pstate[q] = "stopped"
  /\ pstate' = [q \in Pids |-> IF pstate[q] = "stopped" THEN "running" ELSE pstate[q]]
  /\ UNCHANGED <<ppc, image, argv, parent, fdt, loc, status, execFailed,
                 nread, pipebuf, npipes, stdinEof>>
  /\ NoTelemetry

\* what main has set for a signal when the loop starts (lines 265-268):
\* signal_handler for four signals, nothing for any other
Disposition(sig) ==
  IF sig \in {SIGINT, SIGTSTP, SIGTERM, SIGCONT} THEN "handler" ELSE "default"

\* the kernel's default action for a signal
DefaultAction(sig) ==
  IF sig \in {SIGTSTP, SIGTTIN, SIGTTOU} THEN "stop"
  ELSE IF sig = SIGCONT THEN "continue"
  ELSE "terminate"

\* the signals a terminal sends for job control
JobControlSignals == {SIGINT, SIGTSTP, SIGTTIN, SIGTTOU, SIGQUIT}

\* a signal is delivered to the shell process: signal_handler (lines 35-62)
\* prints a message and returns, and the interrupted call goes on; a signal
\* without handler has its default action
ShellSignal(sig) ==
  /\ pstate[ShellPid] = "running"
  /\ IF Disposition(sig) = "handler" \/ DefaultAction(sig) = "continue"
       THEN UNCHANGED vars
     ELSE IF DefaultAction(sig) = "stop"
       THEN /\ pstate' = [pstate EXCEPT ![ShellPid] = "stopped"]
            /\ UNCHANGED <<ppc, image, argv, parent, fdt, loc, status,
                           execFailed, nread, pipebuf, npipes, stdinEof>>
     ELSE /\ Exit(ShellPid, KilledBy(sig))
          /\ UNCHANGED <<parent, loc, execFailed, pipebuf, npipes, stdinEof>>
  /\ NoTelemetry

(* --------------------------- the specification ------------------------- *)
\* the steps a process takes on its own, once it is scheduled
Run(p) ==
  \/ Prompt(p)
  \/ Cleanup(p)
  \/ RunProcessFork(p)
  \/ RunProcessExec(p)
  \/ RunProcessWait(p)
  \/ RunPipePipe(p)
  \/ RunPipeFork1(p)
  \/ RunPipeFork2(p)
  \/ ChildDup(p)
  \/ ChildClose(p)
  \/ ChildExec(p)
  \/ RunPipeClose(p)
  \/ RunPipeWait1(p)
  \/ RunPipeWait2(p)
  \/ YesWrite(p)
  \/ HeadReadPipe(p)
  \/ HeadExit(p)
  \/ SleepExit(p)

\* the steps that wait for the user or for a signal from outside
Input(p) ==
  \/ ReadLine(p)
  \/ Confirm(p)
  \/ HeadReadTty(p)

Next ==
  \/ \E p \in Pids : Run(p) \/ Input(p)
  \/ TtySuspend
  \/ GroupContinue

Spec == Init /\ [][Next]_vars

\* every process that can take a step of its own is eventually scheduled;
\* nothing obliges the user to type or anybody to send a signal
LiveSpec == Spec /\ \A p \in Pids : WF_vars(Run(p))

\* the process side with job-control signals delivered to the shell process
SigNext ==
  \/ Next
  \/ \E sig \in JobControlSignals : ShellSignal(sig)

SigSpec == Init /\ [][SigNext]_vars

(* ------------------- the telemetry side of the shell ------------------- *)
\* The descriptor mq_open returns for the queue (line 92).
Mqd == 3

\* a pthread_mutex_lock that does not wait for the mutex to be free
pthread_mutex_lock_nowait(who) == g_cpu_mtx' = who

\* pthread_mutex_lock(&g_cpu_mtx) (lines 78, 282): waits until the mutex is
\* free and takes it
pthread_mutex_lock(who) == g_cpu_mtx = "free" /\ g_cpu_mtx' = who

\* pthread_mutex_unlock(&g_cpu_mtx) (lines 80, 284)
pthread_mutex_unlock == g_cpu_mtx' = "free"

\* the locals of one iteration of the listener's loop are dead
NoMessage == nrecv' = -1 /\ buf' = <<>> /\ val' = 0

\* lines 92-96: mq_open without O_CREAT fails when nobody has made the queue
MqOpen ==
  /\ mpc = "mq_open"
  /\ \/ g_mq' = -1 /\ mpc' = "m_lock"
     \/ g_mq' = Mqd /\ mpc' = "create"
  /\ UNCHANGED <<current_cpu_load, g_cpu_mtx, g_mq_thread_running,
                 g_mq_thread_started, load_snapshot, lpc, nrecv, buf, val,
                 cancelReq, mqueue>>
  /\ NoProcesses

\* a failed pthread_create that leaves the queue open
create_failed_keeps_queue ==
  /\ g_mq_thread_running' = 0
  /\ UNCHANGED <<g_mq, lpc>>

\* lines 101-105: pthread_create failed
create_failed ==
  /\ g_mq_thread_running' = 0
  /\ g_mq' = -1
  /\ UNCHANGED lpc

\* lines 99-106: the running flag is set and the listener thread is created
PthreadCreate ==
  /\ mpc = "create"
  /\ \/ create_failed /\ mpc' = "m_lock"
     \/ /\ g_mq_thread_running' = 1
        /\ lpc' = "l_test"
        /\ mpc' = "started"
        /\ UNCHANGED g_mq
  /\ UNCHANGED <<current_cpu_load, g_cpu_mtx, g_mq_thread_started,
                 load_snapshot, nrecv, buf, val, cancelReq, mqueue>>
  /\ NoProcesses

\* line 107: g_mq_thread_started = 1
SetStarted ==
  /\ mpc = "started"
  /\ g_mq_thread_started' = 1
  /\ mpc' = "m_lock"
  /\ UNCHANGED <<g_mq, current_cpu_load, g_cpu_mtx, g_mq_thread_running,
                 load_snapshot, lpc, nrecv, buf, val, cancelReq, mqueue>>
  /\ NoProcesses

\* line 282: the prompt takes the mutex
PromptLock ==
  /\ mpc = "m_lock"
  /\ pthread_mutex_lock("main")
  /\ mpc' = "m_snap"
  /\ UNCHANGED <<g_mq, current_cpu_load, g_mq_thread_running,
                 g_mq_thread_started, load_snapshot, lpc, nrecv, buf, val,
                 cancelReq, mqueue>>
  /\ NoProcesses

\* line 283: load_snapshot = current_cpu_load
PromptSnapshot ==
  /\ mpc = "m_snap"
  /\ load_snapshot' = current_cpu_load
  /\ mpc' = "m_unlock"
  /\ UNCHANGED <<g_mq, current_cpu_load, g_cpu_mtx, g_mq_thread_running,
                 g_mq_thread_started, lpc, nrecv, buf, val, cancelReq, mqueue>>
  /\ NoProcesses

\* lines 284-293: the mutex is released and the prompt is printed
PromptUnlock ==
  /\ mpc = "m_unlock"
  /\ pthread_mutex_unlock
  /\ mpc' = "m_read"
  /\ UNCHANGED <<g_mq, current_cpu_load, g_mq_thread_running,
                 g_mq_thread_started, load_snapshot, lpc, nrecv, buf, val,
                 cancelReq, mqueue>>
  /\ NoProcesses

\* what the prompt shows: "[CPU n%]" or "[CPU n/a]" (lines 286-292)
Shown(snapshot) == IF snapshot >= 0 THEN snapshot ELSE "n/a"

\* lines 295-336: main reads a line and runs it, which brings it back to the
\* top of the loop, or finds end-of-input and leaves the loop (line 296)
CommandDone ==
  /\ mpc = "m_read"
  /\ mpc' \in {"m_lock", "stop"}
  /\ UNCHANGED <<g_mq, current_cpu_load, g_cpu_mtx, g_mq_thread_running,
                 g_mq_thread_started, load_snapshot, lpc, nrecv, buf, val,
                 cancelReq, mqueue>>
  /\ NoProcesses

\* line 181: the confirmed exit built-in ends the process, and with it the
\* listener thread, without mq_stop_and_close
ExitBuiltin ==
  /\ mpc = "m_read"
  /\ mpc' = "exited"
  /\ lpc' = IF lpc = "none" THEN "none" ELSE "exited"
  /\ g_cpu_mtx' = "free"
  /\ NoMessage
  /\ UNCHANGED <<g_mq, current_cpu_load, g_mq_thread_running,
                 g_mq_thread_started, load_snapshot, cancelReq, mqueue>>
  /\ NoProcesses

\* lines 112-117 of mq_stop_and_close: the flag is cleared, usleep
StopFlag ==
  /\ mpc = "stop"
  /\ IF g_mq_thread_started = 1
       THEN g_mq_thread_running' = 0 /\ mpc' = "stop_cancel"
       ELSE UNCHANGED g_mq_thread_running /\ mpc' = "stop_close"
  /\ UNCHANGED <<g_mq, current_cpu_load, g_cpu_mtx, g_mq_thread_started,
                 load_snapshot, lpc, nrecv, buf, val, cancelReq, mqueue>>
  /\ NoProcesses

\* mq_stop_and_close without the pthread_cancel
pthread_cancel_missing == UNCHANGED cancelReq

\* pthread_cancel(g_mq_tid): the request stays pending until the thread is
\* at a cancellation point
pthread_cancel == cancelReq' = TRUE

\* line 118
StopCancel ==
  /\ mpc = "stop_cancel"
  /\ pthread_cancel
  /\ mpc' = "stop_join"
  /\ UNCHANGED <<g_mq, current_cpu_load, g_cpu_mtx, g_mq_thread_running,
                 g_mq_thread_started, load_snapshot, lpc, nrecv, buf, val,
                 mqueue>>
  /\ NoProcesses

\* lines 119-120: pthread_join returns once the listener has ended
StopJoin ==
  /\ mpc = "stop_join"
  /\ lpc \in {"returned", "cancelled"}
  /\ lpc' = "joined"
  /\ g_mq_thread_started' = 0
  /\ mpc' = "stop_close"
  /\ UNCHANGED <<g_mq, current_cpu_load, g_cpu_mtx, g_mq_thread_running,
                 load_snapshot, nrecv, buf, val, cancelReq, mqueue>>
  /\ NoProcesses

\* lines 122-125: the queue is closed if it is open
StopClose ==
  /\ mpc = "stop_close"
  /\ g_mq' = IF g_mq # -1 THEN -1 ELSE g_mq
  /\ mpc' = "stop_done"
  /\ UNCHANGED <<current_cpu_load, g_cpu_mtx, g_mq_thread_running,
                 g_mq_thread_started, load_snapshot, lpc, nrecv, buf, val,
                 cancelReq, mqueue>>
  /\ NoProcesses

\* lines 341-342: main returns 0
MainReturn ==
  /\ mpc = "stop_done"
  /\ mpc' = "exited"
  /\ UNCHANGED <<g_mq, current_cpu_load, g_cpu_mtx, g_mq_thread_running,
                 g_mq_thread_started, load_snapshot, lpc, nrecv, buf, val,
                 cancelReq, mqueue>>
  /\ NoProcesses

\* Where the listener goes when it calls a cancellation point (mq_receive,
\* usleep): a request that is pending at the call is acted upon.
AtCancellationPoint(l) == IF cancelReq THEN "cancelled" ELSE l

\* line 68: the loop test.  The flag is written by main with a plain store
\* and read here with a relaxed atomic load, so once main has cleared it
\* the listener may still read the old 1.
ListenerTest ==
  /\ lpc = "l_test"
  /\ \E seen \in (IF g_mq_thread_running = 1 THEN {1} ELSE {0, 1}) :
       lpc' = IF seen = 1 THEN AtCancellationPoint("l_recv") ELSE "returned"
  /\ UNCHANGED <<g_mq, current_cpu_load, g_cpu_mtx, g_mq_thread_running,
                 g_mq_thread_started, mpc, load_snapshot, nrecv, buf, val,
                 cancelReq, mqueue>>
  /\ NoProcesses

\* lines 71-76: mq_receive delivers the oldest message; buf holds its bytes
\* and behind them what it held before; the value is parsed and clamped
ListenerReceive ==
  /\ lpc = "l_recv"
  /\ mqueue # <<>>
  /\ LET m == Head(mqueue)
     IN  /\ nrecv' = Len(m)
         /\ \/ m[Len(m)] = NUL /\ buf' = m
            \/ m[Len(m)] # NUL /\ \E g \in StaleBytes : buf' = m \o g
         /\ val' = clamp(atoi(buf'))
  /\ mqueue' = Tail(mqueue)
  /\ lpc' = "l_lock"
  /\ UNCHANGED <<g_mq, current_cpu_load, g_cpu_mtx, g_mq_thread_running,
                 g_mq_thread_started, mpc, load_snapshot, cancelReq>>
  /\ NoProcesses

\* lines 81-85: mq_receive fails: with EINTR the loop goes on at once, with
\* another error after usleep
ListenerReceiveFails ==
  /\ lpc = "l_recv"
  /\ lpc' \in {"l_test", AtCancellationPoint("l_sleep")}
  /\ UNCHANGED <<g_mq, current_cpu_load, g_cpu_mtx, g_mq_thread_running,
                 g_mq_thread_started, mpc, load_snapshot, nrecv, buf, val,
                 cancelReq, mqueue>>
  /\ NoProcesses

\* line 84: usleep is over
ListenerWake ==
  /\ lpc = "l_sleep"
  /\ lpc' = "l_test"
  /\ UNCHANGED <<g_mq, current_cpu_load, g_cpu_mtx, g_mq_thread_running,
                 g_mq_thread_started, mpc, load_snapshot, nrecv, buf, val,
                 cancelReq, mqueue>>
  /\ NoProcesses

\* a cancellation request reaches the listener while it is suspended in
\* mq_receive or usleep: the thread ends
ListenerCancelled ==
  /\ cancelReq
  /\ lpc \in {"l_recv", "l_sleep"}
  /\ lpc' = "cancelled"
  /\ UNCHANGED <<g_mq, current_cpu_load, g_cpu_mtx, g_mq_thread_running,
                 g_mq_thread_started, mpc, load_snapshot, nrecv, buf, val,
                 cancelReq, mqueue>>
  /\ NoProcesses

\* line 78
ListenerLock ==
  /\ lpc = "l_lock"
  /\ pthread_mutex_lock("listener")
  /\ lpc' = "l_store"
  /\ UNCHANGED <<g_mq, current_cpu_load, g_mq_thread_running,
                 g_mq_thread_started, mpc, load_snapshot, nrecv, buf, val,
                 cancelReq, mqueue>>
  /\ NoProcesses

\* line 79: current_cpu_load = val
ListenerStore ==
  /\ lpc = "l_store"
  /\ current_cpu_load' = val
  /\ lpc' = "l_unlock"
  /\ UNCHANGED <<g_mq, g_cpu_mtx, g_mq_thread_running, g_mq_thread_started,
                 mpc, load_snapshot, nrecv, buf, val, cancelReq, mqueue>>
  /\ NoProcesses

\* line 80, and the end of the iteration
ListenerUnlock ==
  /\ lpc = "l_unlock"
  /\ pthread_mutex_unlock
  /\ NoMessage
  /\ lpc' = "l_test"
  /\ UNCHANGED <<g_mq, current_cpu_load, g_mq_thread_running,
                 g_mq_thread_started, mpc, load_snapshot, cancelReq, mqueue>>
  /\ NoProcesses

\* somebody sends a message to the queue
MqSend ==
  /\ Len(mqueue) < QueueCap
  /\ \E m \in Messages : mqueue' = Append(mqueue, m)
  /\ UNCHANGED mqvars
  /\ NoProcesses

\* the steps main takes on its own
MainRun ==
  \/ MqOpen
  \/ PthreadCreate
  \/ SetStarted
  \/ PromptLock
  \/ PromptSnapshot
  \/ PromptUnlock
  \/ StopFlag
  \/ StopCancel
  \/ StopJoin
  \/ StopClose
  \/ MainReturn

\* the steps the listener takes on its own
ListenerRun ==
  \/ ListenerTest
  \/ ListenerReceive
  \/ ListenerWake
  \/ ListenerCancelled
  \/ ListenerLock
  \/ ListenerStore
  \/ ListenerUnlock

MqNext ==
  \/ MainRun
  \/ ListenerRun
  \/ CommandDone
  \/ ExitBuiltin
  \/ ListenerReceiveFails
  \/ MqSend

MqSpec == Init /\ [][MqNext]_<<mqvars, mqueue>>

\* both threads are scheduled; nothing obliges the user to type, a sender to
\* send or a receive to fail
MqLiveSpec ==
  MqSpec /\ WF_<<mqvars, mqueue>>(MainRun) /\ WF_<<mqvars, mqueue>>(ListenerRun)

(* ------------------------- the daemon (cpuloadd) ------------------------ *)
\* Samples are counted in tenths of a percent, the precision of the text
\* the daemon sends ("%.1f").
\* what cpu_usage_percent_once returns: -1.0 for a failed measurement
\* (lines 69, 71, 85), else a load between 0 and 100 (lines 88-91)
MeasureFailed == -10
RealTenths == {0, 573, 1000}

\* the steps of the random walk of simulated_cpu_load (line 30: between
\* -5.50 and +5.50) that this model takes
SimSteps == {-50, 0, 50}

\* simulated_cpu_load (lines 25-35): v += step, kept within 0..100
simulated_cpu_load(v, step) ==
  IF v + step < 0 THEN 0 ELSE IF v + step > 1000 THEN 1000 ELSE v + step

\* a successful measurement that leaves the failure budget as it is
success_keeps_budget == fail_budget

\* line 117: *fail_budget = 3 on a successful measurement
budget_on_success == 3

\* a step of the daemon: the shell does nothing
NoShell == UNCHANGED <<vars, mqvars>>

\* lines 129-145: the queue is created and opened (the daemon ends when that
\* fails), CPULOAD_SIM=1 in the environment starts it in simulation mode
DaemonOpen ==
  /\ dpc = "mq_open"
  /\ \/ dpc' = "exited" /\ UNCHANGED using_sim
     \/ dpc' = "sample" /\ using_sim' \in {0, 1}
  /\ UNCHANGED <<fail_budget, sample_from_sim, simv, dval, dbuf, streak, mqueue>>
  /\ NoShell

\* get_cpu_load_real_or_sim (lines 94-120) for the measurement result r and
\* the random step of the simulation
get_cpu_load_real_or_sim(r, step) ==
  IF using_sim = 1
    THEN /\ sample_from_sim' = 1
         /\ simv' = simulated_cpu_load(simv, step)
         /\ dval' = simv'
         /\ UNCHANGED <<using_sim, fail_budget, streak>>
  ELSE IF r < 0
    THEN /\ sample_from_sim' = 1
         /\ fail_budget' = IF fail_budget > 0 THEN fail_budget - 1 ELSE fail_budget
         /\ using_sim' = IF fail_budget' = 0 THEN 1 ELSE using_sim
         /\ simv' = simulated_cpu_load(simv, step)
         /\ dval' = simv'
         /\ streak' = streak + 1
  ELSE /\ sample_from_sim' = 0
       /\ fail_budget' = budget_on_success
       /\ dval' = r
       /\ streak' = 0
       /\ UNCHANGED <<using_sim, simv>>

\* lines 149-155: one sample is taken and formatted
DaemonSample ==
  /\ dpc = "sample"
  /\ \E r \in RealTenths \cup {MeasureFailed} : \E step \in SimSteps :
       get_cpu_load_real_or_sim(r, step)
  /\ dbuf' = format_1f(dval') \o <<NUL>>
  /\ dpc' = "send"
  /\ UNCHANGED mqueue
  /\ NoShell

\* lines 157-160: mq_send puts the text and its NUL into the queue, waiting
\* while the queue is full; when it fails the daemon goes on
DaemonSend ==
  /\ dpc = "send"
  /\ \/ Len(mqueue) < QueueCap /\ mqueue' = Append(mqueue, dbuf)
     \/ UNCHANGED mqueue
  /\ dpc' = "sleep"
  /\ UNCHANGED <<using_sim, fail_budget, sample_from_sim, simv, dval, dbuf, streak>>
  /\ NoShell

\* line 163: sleep(10) is over
DaemonSleep ==
  /\ dpc = "sleep"
  /\ dpc' = "sample"
  /\ UNCHANGED <<using_sim, fail_budget, sample_from_sim, simv, dval, dbuf,
                 streak, mqueue>>
  /\ NoShell

\* a reader (the shell's listener) takes the oldest message from the queue
QueueReceive ==
  /\ mqueue # <<>>
  /\ mqueue' = Tail(mqueue)
  /\ UNCHANGED dvars
  /\ NoShell

DaemonNext ==
  \/ DaemonOpen
  \/ DaemonSample
  \/ DaemonSend
  \/ DaemonSleep
  \/ QueueReceive

DaemonSpec == Init /\ [][DaemonNext]_<<dvars, mqueue>>

(* ------------------------------ the claims ----------------------------- *)
Sh == ShellPid
Children == Pids \ {Sh}

\* the places of main's loop and of the launch code that runs in the shell
LoopPcs == {"prompt", "read", "confirm", "cleanup", "rp_fork", "rp_wait",
            "rpipe_pipe", "rpipe_fork1", "rpipe_fork2", "rpipe_close",
            "rpipe_wait1", "rpipe_wait2"}

\* the line's last token is the background marker
TrailingAmp(line) ==
  LET t == strtok(line, <<>>, <<>>) IN Len(t) > 0 /\ t[Len(t)] = W_amp

\* p waits in run_pipe, both forks having succeeded
InPipeWait(p) == pstate[p] = "running" /\ ppc[p] \in {"rpipe_wait1", "rpipe_wait2"}

\* C1: in run_pipe, once both forks have succeeded and the parent waits, the
\* parent holds no descriptor of the pipe; a child that has reached its
\* execvp, or runs its image, has closed both original descriptors and holds
\* only its redirected one; so every descriptor of the pipe still open is
\* the left stage's standard output (write end), the right stage's standard
\* input (read end), or belongs to a child that has not yet done its closes.
C1_PipeDescriptorsClosed ==
  \A p \in Pids : InPipeWait(p) =>
    LET k == loc[p].pipe
        l == loc[p].pid1
        r == loc[p].pid2
    IN  /\ \A n \in Fds : fdt[p][n].pipe # k
        /\ \A q \in Pids : \A n \in Fds :
             fdt[q][n].pipe = k =>
               \/ q = l /\ ppc[q] \in {"c1_dup", "c1_close"}
               \/ q = r /\ ppc[q] \in {"c2_dup", "c2_close"}
               \/ q = l /\ n = STDOUT_FILENO /\ fdt[q][n].end = "w"
               \/ q = r /\ n = STDIN_FILENO /\ fdt[q][n].end = "r"
        /\ \A q \in {l, r} : \A n \in Fds :
             (ppc[q] \in {"c1_exec", "c2_exec", "prog"} /\ n > 2) =>
               fdt[q][n].pipe # k

\* C1 witness: the parent waits, both stages run their images, the left one
\* writing to the pipe and the right one reading from it
C1_Witness ==
  /\ At(Sh, "rpipe_wait1")
  /\ At(loc[Sh].pid1, "prog") /\ At(loc[Sh].pid2, "prog")
  /\ fdt[loc[Sh].pid1][STDOUT_FILENO] = PipeEnd(loc[Sh].pipe, "w")
  /\ fdt[loc[Sh].pid2][STDIN_FILENO] = PipeEnd(loc[Sh].pipe, "r")

\* the pipeline p runs is an unbounded writer into a bounded reader
YesIntoHead(p) == loc[p].left = <<W_yes>> /\ loc[p].right[1] = W_head

\* a stage of the pipeline the shell waits for is stopped
StageStopped ==
  /\ InPipeWait(Sh)
  /\ \/ pstate[loc[Sh].pid1] = "stopped"
     \/ pstate[loc[Sh].pid2] = "stopped"

\* C2: a foreground pipeline of an unbounded writer into a bounded reader
\* terminates: from the parent's first wait the shell reaches its next
\* prompt (unless a stage is stopped from outside).
C2_InfiniteProducerTerminates ==
  (At(Sh, "rpipe_wait1") /\ YesIntoHead(Sh)) ~> (ppc[Sh] = "prompt" \/ StageStopped)

\* C2 witness: the reader has exited after its limit, the writer has been
\* killed by SIGPIPE, and the parent is about to collect them
C2_Witness ==
  /\ At(Sh, "rpipe_wait1") /\ YesIntoHead(Sh)
  /\ pstate[loc[Sh].pid1] = "zombie"
  /\ status[loc[Sh].pid1] = KilledBy(SIGPIPE)
  /\ pstate[loc[Sh].pid2] = "zombie"
  /\ status[loc[Sh].pid2] = ExitedWith(0)

\* C3: every child that terminates is eventually collected by the shell
\* while the shell keeps running.
C3_EveryChildReaped ==
  \A c \in Children :
    (pstate[c] = "zombie") ~> (pstate[c] = "reaped" \/ pstate[Sh] # "running")

\* C4: run_process's foreground wait returns control when the job is
\* stopped: whenever the shell is in that wait and the job it waits for is
\* stopped, the wait can return.
C4_StoppedForegroundReturns ==
  (At(Sh, "rp_wait") /\ pstate[loc[Sh].pid] = "stopped") =>
    ENABLED RunProcessWait(Sh)

\* C5: a command line with a trailing & never makes run_process wait, and
\* the shell gets from the launch to reading the next command line however
\* long the job runs.
C5_BackgroundDoesNotWait ==
  /\ [](ppc[Sh] = "rp_wait" => ~TrailingAmp(loc[Sh].line))
  /\ (At(Sh, "rp_fork") /\ TrailingAmp(loc[Sh].line)) ~> (ppc[Sh] = "read")

\* C5 witness: the shell reads the next command while a job that never ends
\* by itself (yes on the terminal) is running
C5_Witness ==
  /\ At(Sh, "read")
  /\ \E c \in Children :
       /\ At(c, "prog") /\ image[c] = "yes" /\ parent[c] = Sh
       /\ fdt[c][STDOUT_FILENO] = Tty

\* C6: a child whose image replacement failed terminates with exit status 127.
C6_ExecFailureStatus127 ==
  \A c \in Pids : (execFailed[c] /\ pstate[c] = "zombie") =>
    (WIFEXITED(status[c]) /\ WEXITSTATUS(status[c]) = 127)

\* C7: a child whose image replacement failed is isolated: no process but
\* the shell is ever at a place of the command loop or of the launch code, a
\* child whose execvp failed is terminated, its failure changes nothing in
\* the shell, and a shell that waits for it gets to its next prompt.
C7_ExecFailureIsolated ==
  /\ [](\A c \in Children :
          /\ ppc[c] \notin LoopPcs
          /\ execFailed[c] => pstate[c] = "zombie")
  /\ [][\A c \in Children :
          (~execFailed[c] /\ execFailed'[c]) =>
             /\ pstate'[Sh] = pstate[Sh] /\ ppc'[Sh] = ppc[Sh]
             /\ fdt'[Sh] = fdt[Sh] /\ loc'[Sh] = loc[Sh]]_vars
  /\ (At(Sh, "rp_wait") /\ execFailed[loc[Sh].pid]) ~> (ppc[Sh] = "prompt")

\* C7 witness: a background child's execvp has failed, the child is
\* terminated and the shell is reading the next command
C7_Witness ==
  /\ At(Sh, "read")
  /\ \E c \in Children : execFailed[c] /\ pstate[c] = "zombie"

\* C8 (as stated): the shell terminates only after an affirmative answer to
\* the exit question, end-of-input on the command read included.
C8_EofNeedsConfirmation ==
  pstate[Sh] = "zombie" => (loc[Sh].ans # <<>> /\ loc[Sh].ans[1] = "y")

\* C8 (amended): end-of-input on the command read leaves the loop directly,
\* without the exit question: the shell goes to its clean-up and from there
\* terminates with exit code 0.
C8_EofLeavesLoop ==
  [][/\ (At(Sh, "read") /\ stdinEof' /\ ppc'[Sh] # "read") =>
          (ppc'[Sh] = "cleanup" /\ pstate'[Sh] = "running")
     /\ (At(Sh, "cleanup") /\ ppc'[Sh] # "cleanup") =>
          (pstate'[Sh] = "zombie" /\ status'[Sh] = ExitedWith(0))]_vars

\* C8 witness: the shell has terminated with code 0 after end-of-input,
\* no answer to an exit question having been read
C8_Witness ==
  pstate[Sh] = "zombie" /\ status[Sh] = ExitedWith(0) /\ stdinEof /\ loc[Sh].ans = <<>>

\* C9 (as stated): after the exit question the shell terminates with code 0
\* if and only if the answer is y, and otherwise goes to the next prompt.
C9_ExitIffAnswerIsY ==
  [][(At(Sh, "confirm") /\ ppc'[Sh] # "confirm") =>
       /\ (pstate'[Sh] = "zombie") <=> (loc'[Sh].ans = <<"y", "\n">>)
       /\ pstate'[Sh] = "zombie" => status'[Sh] = ExitedWith(0)
       /\ pstate'[Sh] # "zombie" => At(Sh, "prompt")']_vars

\* C9 (amended): after the exit question the shell terminates with code 0
\* if and only if an answer was read and it begins with y; otherwise the
\* shell keeps running and goes to the next prompt.
C9_ExitIffAnswerBeginsWithY ==
  [][(At(Sh, "confirm") /\ ppc'[Sh] # "confirm") =>
       /\ (pstate'[Sh] = "zombie") <=>
            (~stdinEof' /\ loc'[Sh].ans # <<>> /\ loc'[Sh].ans[1] = "y")
       /\ pstate'[Sh] = "zombie" => status'[Sh] = ExitedWith(0)
       /\ pstate'[Sh] # "zombie" => At(Sh, "prompt")']_vars

\* C9 witness: the shell has terminated with code 0 on the answer y
C9_Witness ==
  pstate[Sh] = "zombie" /\ status[Sh] = ExitedWith(0) /\ loc[Sh].ans = <<"y", "\n">>

\* the shell is at a fork or at the pipe creation
AtLaunchCall == \E l \in {"rp_fork", "rpipe_pipe", "rpipe_fork1", "rpipe_fork2"} : At(Sh, l)

\* the step made neither a process nor a pipe
NothingCreated ==
  /\ \A c \in Pids : pstate[c] = "unused" => pstate'[c] = "unused"
  /\ npipes' = npipes

\* C10: when a fork or the pipe creation fails, the shell gives up that job
\* only: it stays alive, goes to the next prompt and leaves every other
\* process as it was.
C10_LaunchFailureContinues ==
  [][(AtLaunchCall /\ ppc'[Sh] # ppc[Sh] /\ NothingCreated) =>
       /\ At(Sh, "prompt")'
       /\ \A c \in Children :
            pstate'[c] = pstate[c] /\ ppc'[c] = ppc[c] /\ fdt'[c] = fdt[c]]_vars

\* C10 witness: run_pipe's second fork has failed: the shell is back at the
\* prompt while the left child, which nobody waits for, is still on its way
\* to its execvp
C10_Witness ==
  /\ At(Sh, "prompt")
  /\ \E c \in Children :
       pstate[c] = "running" /\ ppc[c] \in {"c1_dup", "c1_close", "c1_exec"}

\* C11: a pipeline line ending in & is run in the background: the shell
\* never waits in run_pipe for a line that ends in &, and no process is
\* started with & among its arguments.
C11_BackgroundPipeline ==
  /\ InPipeWait(Sh) => ~TrailingAmp(loc[Sh].line)
  /\ \A c \in Children : \A i \in 1..Len(argv[c]) : argv[c][i] # W_amp

\* C12: while the shell waits for a pipeline, both stages are in one process
\* group whose id is the left child's pid, and that group is not the shell's.
C12_PipelineOwnGroup ==
  InPipeWait(Sh) =>
    /\ getpgid(loc[Sh].pid1) = loc[Sh].pid1
    /\ getpgid(loc[Sh].pid2) = loc[Sh].pid1
    /\ getpgid(loc[Sh].pid1) # getpgid(Sh)

\* C13: no job-control signal delivered to the shell terminates or suspends
\* it: the shell is never stopped and never killed by a signal.
C13_ShellSurvivesSignals ==
  /\ pstate[Sh] # "stopped"
  /\ ~(pstate[Sh] = "zombie" /\ WIFSIGNALED(status[Sh]))

\* C18: whenever run_pipe has returned and the shell is at its prompt, the
\* shell holds no descriptor of a pipe, and no child is left that still
\* holds one (every child run_pipe forked has been waited for).
C18_RunPipeLeavesNothing ==
  At(Sh, "prompt") =>
    \A q \in Pids : \A n \in Fds : fdt[q][n].kind # "pipe"

\* the decimal texts of this model with the integer part of their number
IntPart(t) == IF t >= 0 THEN t \div 10 ELSE 0 - ((0 - t) \div 10)
Decimals ==
  {[text |-> format_1f(t), int |-> IntPart(t)] : t \in SentTenths}
    \cup {[text |-> <<"5">>, int |-> 5]}

\* the text of the message the listener has received: the nrecv bytes
\* mq_receive delivered, up to a NUL among them
Received == cstring(SubSeq(buf, 1, nrecv))

\* the listener stores the value of the message it has received
Stores == lpc = "l_store" /\ lpc' = "l_unlock"

mqv == <<mqvars, mqueue>>

\* C14: the cache is always the sentinel -1 or a value in 0..100, it never
\* returns to the sentinel, and a received message whose text is a decimal
\* number sets it to the integer part of that number clamped to [0,100].
C14_CacheIsClampedIntegerPart ==
  [][/\ current_cpu_load' = -1 \/ current_cpu_load' \in 0..100
     /\ current_cpu_load # -1 => current_cpu_load' # -1
     /\ Stores => \A d \in Decimals :
          Received = d.text => current_cpu_load' = clamp(d.int)]_mqv

\* C15: a received message whose text is no number (abc) leaves the cache as
\* it was.
C15_UnparsableKeepsCache ==
  [][(Stores /\ Received = <<"a", "b", "c">>) =>
       current_cpu_load' = current_cpu_load]_mqv

\* the values a message of this model can make the listener store
Producible ==
  {clamp(atoi(m \o g)) : m \in Messages, g \in StaleBytes \cup {<<>>}}

\* C16: the cache is read and written only with the mutex held (main reads
\* it at the snapshot holding the mutex, the listener alone writes it,
\* holding the mutex, and the two are never in their critical sections
\* together); the snapshot a prompt shows is the cache as the last completed
\* update left it, -1 (n/a) when there was none, and never a value that no
\* message produces.
C16_CacheGuardedByMutex ==
  /\ [](/\ mpc \in {"m_snap", "m_unlock"} => g_cpu_mtx = "main"
        /\ lpc \in {"l_store", "l_unlock"} => g_cpu_mtx = "listener"
        /\ ~(mpc \in {"m_snap", "m_unlock"} /\ lpc \in {"l_store", "l_unlock"})
        /\ load_snapshot \in {-1} \cup Producible)
  /\ [][/\ current_cpu_load' # current_cpu_load =>
             (Stores /\ g_cpu_mtx = "listener" /\ current_cpu_load' = val)
        /\ load_snapshot' # load_snapshot =>
             (mpc = "m_snap" /\ g_cpu_mtx = "main"
                /\ load_snapshot' = current_cpu_load)]_mqv

\* C16 witness: main holds the mutex and has taken the snapshot 57, the
\* value of the last completed update, while the listener waits for the
\* mutex with the next value
C16_Witness ==
  /\ mpc = "m_unlock" /\ g_cpu_mtx = "main" /\ load_snapshot = 57
  /\ lpc = "l_lock" /\ val = 100

\* startup is over and there is no listener thread
StartedWithoutListener == mpc \notin {"mq_open", "create"} /\ lpc = "none"

\* C17: when the queue cannot be opened or the listener thread cannot be
\* created, no listener runs, the queue handle is -1, both flags are 0, the
\* cache stays at -1, every prompt shows n/a, and main's loop gets from the
\* snapshot to reading the command; the started flag is never set while
\* the queue handle is -1.
C17_NoQueueNoListener ==
  /\ [](StartedWithoutListener =>
          /\ g_mq = -1 /\ g_mq_thread_started = 0 /\ g_mq_thread_running = 0
          /\ current_cpu_load = -1 /\ Shown(load_snapshot) = "n/a")
  /\ [](g_mq_thread_started = 1 => g_mq # -1)
  /\ (StartedWithoutListener /\ mpc = "m_lock") ~> (mpc = "m_read")

\* C17 witness: without a listener the prompt has been drawn, showing n/a,
\* although a message waits in the queue
C17_Witness ==
  /\ StartedWithoutListener /\ mpc = "m_read"
  /\ Shown(load_snapshot) = "n/a" /\ mqueue # <<>>

\* main is in mq_stop_and_close
InStop == mpc \in {"stop", "stop_cancel", "stop_join", "stop_close"}

\* C20: mq_stop_and_close returns; the flag is cleared before the cancel
\* and the cancel is requested before the join returns; after the call no
\* listener runs, the started flag is 0 and the queue handle is -1; a call
\* with no listener started and no queue open changes nothing.
C20_StopAlwaysReturns ==
  /\ (mpc = "stop") ~> (mpc = "stop_done")
  /\ [](mpc = "stop_done" =>
          /\ lpc \in {"none", "joined"}
          /\ g_mq_thread_started = 0 /\ g_mq = -1)
  /\ [][/\ (cancelReq' /\ ~cancelReq) => g_mq_thread_running = 0
        /\ (lpc' = "joined" /\ lpc # "joined") => cancelReq
        /\ (InStop /\ g_mq_thread_started = 0 /\ g_mq = -1) =>
             UNCHANGED <<g_mq, current_cpu_load, g_cpu_mtx,
                         g_mq_thread_running, g_mq_thread_started, lpc,
                         cancelReq>>]_mqv

\* C20 witness: main waits in pthread_join, the cancel requested, while the
\* listener is still blocked in mq_receive on the empty queue
C20_Witness ==
  /\ mpc = "stop_join" /\ cancelReq
  /\ lpc = "l_recv" /\ mqueue = <<>>

\* the daemon takes a sample
Sampling == dpc = "sample" /\ dpc' = "send"

\* C19: get_cpu_load_real_or_sim switches to simulation exactly on the third
\* failed real measurement in a row; a successful measurement puts the
\* failure budget back to three, so that in real mode the budget is three
\* less the failures in a row; a failed measurement yields a simulated
\* sample; simulation mode, once on, stays on.
C19_SimulationAfterThreeFailures ==
  /\ [](using_sim = 0 => fail_budget = 3 - streak)
  /\ [][/\ Sampling =>
             ((using_sim = 0 /\ using_sim' = 1) <=> (streak = 2 /\ streak' = 3))
        /\ (Sampling /\ streak' = streak + 1) =>
             (sample_from_sim' = 1 /\ dval' = simv')
        /\ (Sampling /\ using_sim = 0 /\ streak' = 0) => fail_budget' = 3
        /\ using_sim = 1 => using_sim' = 1]_<<dvars, mqueue>>

\* C19 witness: the daemon has switched to simulation on the third failure in
\* a row, having sent a real sample (57.3) before
C19_Witness ==
  /\ dpc = "send" /\ using_sim = 1 /\ streak = 3 /\ sample_from_sim = 1
  /\ mqueue = <<format_1f(573) \o <<NUL>>>>

====
